---------------------------- MODULE Spec2Model ----------------------------
(***************************************************************************)
(* Model of the Liferay headless-API collector (liferay_collector.py).     *)
(*                                                                         *)
(* The program is single-threaded.  Its call stack                         *)
(*   run_full_collection -> collect_* -> collect_paginated_data            *)
(*     -> make_request -> find_csrf_token / authenticate_comprehensive     *)
(* is modelled by one frame variable per level (pc, pg, mr, auth); a level *)
(* runs only while the level it called is idle or has returned.  Every     *)
(* answer of the remote backend (status, body, exception) is chosen        *)
(* nondeterministically at the step that performs the request.             *)
(***************************************************************************)
EXTENDS Integers, Sequences, FiniteSets, TLC

VARIABLES
    credentials,      \* username/password: "none", "ascii" or "non_ascii"
    csrf_token,       \* self.csrf_token: "none", or where the token came from
    session_headers,  \* self.session.headers: Authorization and X-CSRF-Token
    stats,            \* self.stats
    files,            \* the output directory: file name -> JSON value written
    pc,               \* position of the caller (constructor / run coordinator)
    run,              \* locals of run_full_collection / collect_documents_from_folders
    auth,             \* frame of authenticate_comprehensive
    mr,               \* frame of make_request
    pg,               \* frame of collect_paginated_data
    backend,          \* what the remote backend may answer in this run
    faults,           \* failed GET attempts of make_request so far
    invocation        \* the program run: options, exit code, earlier run

vars == <<credentials, csrf_token, session_headers, stats, files, pc, run,
          auth, mr, pg, backend, faults, invocation>>

---------------------------------------------------------------------------
(* Bounds of the model *)

\* largest lastPage a page envelope reports
MaxLastPage == 2
\* largest number of items on one page
MaxItems == 2
\* failed GET attempts (HTTP error, TLS error, exception) the mock backend
\* produces in one run
MaxFaults == 3

(* Program constants *)

\* make_request(url, params, max_retries=3)
max_retries == 3

---------------------------------------------------------------------------
(* Values *)

\* the authentication strategies, in the order authenticate_comprehensive
\* calls them
Strategies == <<"basic", "web", "jsonws", "oauth2">>

\* HTTP error statuses raise_for_status() turns into HTTPError
ErrorStatuses == {"401", "403", "500"}

\* Python None as the result of make_request
None == [kind |-> "None", totalCount |-> {}, lastPage |-> {}, items |-> <<>>]

\* a JSON body that is falsy in Python ({}, [], null, 0, "")
EmptyBody == [kind |-> "falsy", totalCount |-> {}, lastPage |-> {}, items |-> <<>>]

\* `if data:` / `if response:` on the result of make_request
Truthy(data) == data.kind = "dict"

\* dict.get(key, default); a field is the empty set when the key is absent
Get(field, default) == IF field = {} THEN default ELSE CHOOSE v \in field : TRUE

\* the endpoints: a resource, and the folder for the documents endpoint
NoFolder == <<0, 0>>
SiteEndpoint(res) == [res |-> res, folder |-> NoFolder]

\* params of a request that passes none (test_api_access)
NoParams == [page |-> 0, pageSize |-> 0]

\* The n records the backend serves on page p of endpoint ep.  Records are
\* opaque to the collector; each is named by where the backend served it.
Items(ep, p, n) == [k \in 1..n |-> [ep |-> ep, page |-> p, k |-> k]]

\* the resources under the site namespace, and the access probes
SiteResources ==
    {"structured-contents", "structured-content-folders", "site-pages",
     "document-folders"}
ProbeResources == {"site", "sites", "current-user"}

\* What the backend may put into the page envelopes of an endpoint: the
\* values of totalCount and of lastPage (the empty set: the key is absent)
\* and the numbers of items on a page.
Envelopes(ep) ==
    IF ep.res = "documents"
    THEN IF ep.folder = <<1, 1>> THEN backend.first_folder
         ELSE backend.other_folders
    ELSE backend.site[ep.res]

\* The JSON bodies the backend may answer with status 200 to a GET of
\* endpoint ep with the given params.  totalCount and lastPage are read from
\* page 1 only, so the envelopes of the later pages are given without them;
\* a request without params (the access probe) is only tested for truth.
Bodies(ep, params) ==
    {EmptyBody} \cup
    { [kind |-> "dict", totalCount |-> tc, lastPage |-> lp,
       items |-> Items(ep, params.page, n)] :
        tc \in IF params.page = 1 THEN Envelopes(ep).totalCounts ELSE {{}},
        lp \in IF params.page = 1 THEN Envelopes(ep).lastPages ELSE {{}},
        n \in IF params.page >= 1 THEN Envelopes(ep).itemCounts ELSE {0} }

\* any envelope within the bounds
AnyEnvelope ==
    [totalCounts |-> {{}, {0}, {45}},
     lastPages   |-> {{}} \cup {{l} : l \in 0..MaxLastPage},
     itemCounts  |-> 0..MaxItems]

\* one fixed envelope shape
Envelope(totalCount, lastPage, itemCount) ==
    [totalCounts |-> {totalCount}, lastPages |-> {lastPage},
     itemCounts |-> {itemCount}]

\* A backend that may answer every page request with any envelope, and with
\* a failure on every attempt.
RichBackend ==
    [site          |-> [r \in SiteResources \cup ProbeResources |-> AnyEnvelope],
     first_folder  |-> AnyEnvelope,
     other_folders |-> AnyEnvelope,
     max_faults    |-> max_retries * (MaxLastPage + 1)]

\* A backend with fixed contents: two pages of structured contents, one
\* content folder, no site pages, two document folders of which the first
\* holds two documents and the others none.  Its answers fail or come back
\* empty at most MaxFaults times in a run.
MockBackend ==
    [site |-> [r \in SiteResources \cup ProbeResources |->
                 CASE r = "structured-contents"        -> Envelope({45}, {2}, 1)
                   [] r = "structured-content-folders" -> Envelope({1}, {1}, 1)
                   [] r = "site-pages"                 -> Envelope({0}, {1}, 0)
                   [] r = "document-folders"           -> Envelope({2}, {1}, 2)
                   [] OTHER                            -> Envelope({}, {}, 0)],
     first_folder  |-> Envelope({2}, {1}, 2),
     other_folders |-> Envelope({0}, {}, 0),
     max_faults    |-> MaxFaults]

\* The same backend with one document in every other document folder
MockBackendFull ==
    [MockBackend EXCEPT !.other_folders = Envelope({1}, {1}, 1)]

---------------------------------------------------------------------------
(* Frames *)

\* the headers of a request that carries neither credential nor token
NoHeaders == [Authorization |-> "none", X_CSRF_Token |-> "none"]

\* the headers of the last request sent, before any request was sent
NotSent == [Authorization |-> "unsent", X_CSRF_Token |-> "unsent"]

AuthIdle == [pc |-> "idle", trace |-> <<>>, sent |-> NotSent]

\* entry of authenticate_comprehensive
AuthStart == [pc |-> Strategies[1], trace |-> <<>>, sent |-> NotSent]

MrIdle ==
    [pc |-> "idle", ep |-> SiteEndpoint("none"), params |-> NoParams,
     attempt |-> 0, csrf_idx |-> 0, csrf_response |-> "none", result |-> None,
     log |-> <<>>, delays |-> <<>>, reauths |-> 0, errors0 |-> 0,
     sent |-> NotSent]

PgIdle ==
    [pc |-> "idle", ep |-> SiteEndpoint("none"), page_size |-> 0,
     page |-> 0, total_count |-> {}, total_pages |-> {}, all_data |-> <<>>,
     requests |-> <<>>, fetched |-> <<>>, sleeps |-> 0, failed |-> 0,
     cause |-> <<>>, errors0 |-> 0]

RunIdle ==
    [probe |-> 0, step |-> 0, document_folders |-> <<>>, i |-> 0,
     all_documents |-> <<>>]

StatsZero ==
    [structured_contents |-> 0, content_folders |-> 0, site_pages |-> 0,
     document_folders |-> 0, documents |-> 0, errors |-> 0]

\* the keys of collect_options in main.py
AllOptions ==
    {"structured_contents", "content_folders", "site_pages",
     "document_folders", "documents"}

\* A first run of the collector that does not go through main.py: nothing
\* is deselected, no exit code is set, the output directory starts empty.
Direct ==
    [collect_options |-> AllOptions, dry_run |-> FALSE, exit_code |-> "none",
     number |-> 1, left |-> {}]

---------------------------------------------------------------------------
(* Transport Session: self.session *)

\* SessionRequest that sends the per-request headers only
SessionRequest_ExtraOnly(headers, extra) == extra

\* self.session.get / self.session.post: the request carries the session's
\* headers, each overridden by the per-request header of the same name
SessionRequest(headers, extra) ==
    [h \in DOMAIN headers |->
        IF extra[h] # "none" THEN extra[h] ELSE headers[h]]

---------------------------------------------------------------------------
(* Authenticator: authenticate_comprehensive and its four strategies *)

\* `if username and password:`
HasCredentials == credentials # "none"

\* The strategy tried after strategy s returned False ("done": none is left
\* and the warning is logged).
StrategyAfter(s) ==
    CASE s = "basic"  -> "web"
      [] s = "web"    -> "jsonws"
      [] s = "jsonws" -> "oauth2"
      [] s = "oauth2" -> "done"

\* AfterStrategy without the return after a success
AfterStrategy_NoReturn(a, s, ok) ==
    [a EXCEPT !.pc = StrategyAfter(s),
              !.trace = Append(a.trace, [strategy |-> s, ok |-> ok])]

\* authenticate_comprehensive after strategy s returned ok: return at the
\* first success, otherwise go on to the next strategy.
AfterStrategy(a, s, ok) ==
    [a EXCEPT !.pc = IF ok THEN "done" ELSE StrategyAfter(s),
              !.trace = Append(a.trace, [strategy |-> s, ok |-> ok])]

\* try_basic_auth: installs the Basic header, then probes the current-user
\* endpoint.  Encoding non-ASCII credentials raises before the header is set
\* and before any request is sent.
TryBasicAuth ==
    /\ auth.pc = "basic"
    /\ \E ok \in BOOLEAN :
        /\ (credentials = "non_ascii") => ~ok
        /\ session_headers' =
               IF credentials = "non_ascii" THEN session_headers
               ELSE [session_headers EXCEPT !.Authorization = "Basic"]
        /\ auth' = [AfterStrategy(auth, "basic", ok) EXCEPT !.sent =
                       IF credentials = "non_ascii" THEN @
                       ELSE SessionRequest(session_headers', NoHeaders)]
    /\ UNCHANGED <<credentials, csrf_token, stats, files, pc, run, mr, pg,
                   backend, invocation, faults>>

\* try_web_login: GET the login page, scan it for tokens (a csrf match is
\* stored in self.csrf_token), POST the form, verify.
TryWebLogin ==
    /\ auth.pc = "web"
    /\ \E page_ok \in BOOLEAN, csrf_found \in BOOLEAN, ok \in BOOLEAN :
        /\ ~page_ok => (~csrf_found /\ ~ok)
        /\ csrf_token' = IF csrf_found THEN "login" ELSE csrf_token
        /\ auth' = [AfterStrategy(auth, "web", ok) EXCEPT !.sent =
                       SessionRequest(session_headers, NoHeaders)]
    /\ UNCHANGED <<credentials, session_headers, stats, files, pc, run, mr,
                   pg, backend, invocation, faults>>

\* try_jsonws_login: POST the credentials through the session; success is
\* status 200.
TryJsonwsLogin ==
    /\ auth.pc = "jsonws"
    /\ \E ok \in BOOLEAN :
        auth' = [AfterStrategy(auth, "jsonws", ok) EXCEPT !.sent =
                    SessionRequest(session_headers, NoHeaders)]
    /\ UNCHANGED <<credentials, csrf_token, session_headers, stats, files,
                   pc, run, mr, pg, backend, invocation, faults>>

\* try_oauth2: POST the password grant through the session; on status 200
\* with an access_token the Bearer header is installed.
TryOAuth2 ==
    /\ auth.pc = "oauth2"
    /\ \E ok \in BOOLEAN :
        /\ session_headers' =
               IF ok THEN [session_headers EXCEPT !.Authorization = "Bearer"]
               ELSE session_headers
        /\ auth' = [AfterStrategy(auth, "oauth2", ok) EXCEPT !.sent =
                       SessionRequest(session_headers, NoHeaders)]
    /\ UNCHANGED <<credentials, csrf_token, stats, files, pc, run, mr, pg,
                   backend, invocation, faults>>

---------------------------------------------------------------------------
(* Construction: LiferayAPICollector.__init__ *)

\* __init__ up to the call of authenticate_comprehensive
Construct ==
    /\ pc = "new"
    /\ pc' = "init"
    /\ auth' = IF HasCredentials THEN AuthStart ELSE AuthIdle
    /\ UNCHANGED <<credentials, csrf_token, session_headers, stats, files,
                   run, mr, pg, backend, invocation, faults>>

\* __init__ after authentication: the statistics are created
InitStats ==
    /\ pc = "init"
    /\ auth.pc \in {"idle", "done"}
    /\ stats' = StatsZero
    /\ auth' = AuthIdle
    /\ pc' = "ready"
    /\ UNCHANGED <<credentials, csrf_token, session_headers, files, run, mr,
                   pg, backend, invocation, faults>>

---------------------------------------------------------------------------
(* CSRF Token Resolver: find_csrf_token *)

\* number of candidate URLs in csrf_sources
NumCsrfSources == 4

\* What the GET of a candidate URL may give: an exception or a status other
\* than 200 ("error"), or status 200 with the token in the X-CSRF-Token
\* response header, in the body, in both, or in neither ("empty")
CsrfResponses == {"error", "empty", "header", "body", "header_body"}

\* CsrfMatch that scans the body before it looks at the header
CsrfMatch_BodyFirst(response) ==
    CASE response \in {"body", "header_body"} -> "body"
      [] response = "header"                  -> "header"
      [] OTHER                                -> "none"

\* The token found in a response: the X-CSRF-Token response header if there
\* is one, otherwise the first match of the pattern in the body ("none": no
\* match, or no status 200)
CsrfMatch(response) ==
    CASE response \in {"header", "header_body"} -> "header"
      [] response = "body"                      -> "body"
      [] OTHER                                  -> "none"

\* One iteration of the loop over csrf_sources, the request:
\* response = self.session.get(url)
FindCsrfTokenGet ==
    /\ mr.pc = "csrf"
    /\ \E response \in CsrfResponses :
        mr' = [mr EXCEPT !.pc = "csrf_scan", !.csrf_response = response,
                         !.sent = SessionRequest(session_headers, NoHeaders)]
    /\ UNCHANGED <<credentials, csrf_token, session_headers, stats, files,
                   pc, run, auth, pg, backend, invocation, faults>>

\* The rest of the iteration: a match stores the token, installs the session
\* header and returns; without a match the loop goes on to the next
\* candidate, and after the last one the warning is logged and make_request
\* goes on.
FindCsrfToken ==
    /\ mr.pc = "csrf_scan"
    /\ LET token == CsrfMatch(mr.csrf_response)
           m == [mr EXCEPT !.csrf_response = "none"]
       IN
        IF token # "none"
        THEN /\ csrf_token' = token
             /\ session_headers' = [session_headers EXCEPT !.X_CSRF_Token = token]
             /\ mr' = [m EXCEPT !.pc = "attempt"]
        ELSE /\ UNCHANGED <<csrf_token, session_headers>>
             /\ mr' = IF mr.csrf_idx < NumCsrfSources
                      THEN [m EXCEPT !.pc = "csrf", !.csrf_idx = @ + 1]
                      ELSE [m EXCEPT !.pc = "attempt"]
    /\ UNCHANGED <<credentials, stats, files, pc, run, auth, pg, backend,
                   invocation, faults>>

---------------------------------------------------------------------------
(* Request Executor: make_request *)

\* MakeRequest that looks for a token whether or not one is known
MakeRequest_AlwaysDiscover(ep, params) ==
    [MrIdle EXCEPT !.pc = "csrf",
                   !.ep = ep, !.params = params, !.csrf_idx = 1,
                   !.errors0 = stats.errors]

\* Entry of make_request(url, params): resolve the CSRF token first if none
\* is known, then start the attempts.
MakeRequest(ep, params) ==
    [MrIdle EXCEPT !.pc = IF csrf_token = "none" THEN "csrf" ELSE "attempt",
                   !.ep = ep, !.params = params, !.csrf_idx = 1,
                   !.errors0 = stats.errors]

\* api_headers: Accept and Content-Type, and X-CSRF-Token if a token is known
ApiHeaders == [Authorization |-> "none", X_CSRF_Token |-> csrf_token]

\* self.session.get(url, params=params, headers=api_headers, ...)
GetSent(m) == [m EXCEPT !.sent = SessionRequest(session_headers, ApiHeaders)]

\* BackoffDelay with a linear delay
BackoffDelay_Linear(attempt) == 2 * attempt

\* time.sleep(2 ** attempt)
BackoffDelay(attempt) == 2 ^ attempt

\* RetryOrGiveUp with the last attempt retried as well
RetryOrGiveUp_OneMore(m) ==
    IF m.attempt < max_retries
    THEN [m EXCEPT !.pc = "attempt", !.attempt = @ + 1,
                   !.delays = Append(@, BackoffDelay(m.attempt))]
    ELSE [m EXCEPT !.pc = "return", !.result = None]

\* The end of both retrying except-clauses: sleep and try again unless this
\* was the last attempt; on the last attempt give up with None.
RetryOrGiveUp(m) ==
    IF m.attempt < max_retries - 1
    THEN [m EXCEPT !.pc = "attempt", !.attempt = @ + 1,
                   !.delays = Append(@, BackoffDelay(m.attempt))]
    ELSE [m EXCEPT !.pc = "return", !.result = None]

\* ErrorsAfter that counts every failed attempt
ErrorsAfter_EveryAttempt(m, st) == [st EXCEPT !.errors = @ + 1]

\* ... and count the error on the last attempt: self.stats['errors'] += 1
ErrorsAfter(m, st) ==
    IF m.attempt < max_retries - 1 THEN st
    ELSE [st EXCEPT !.errors = @ + 1]

\* An attempt whose GET answers 200 with a JSON body: return response.json()
AttemptOk ==
    /\ mr.pc = "attempt"
    /\ \E body \in Bodies(mr.ep, mr.params) :
        /\ (body = EmptyBody) => faults < backend.max_faults
        /\ faults' = IF body = EmptyBody THEN faults + 1 ELSE faults
        /\ mr' = [GetSent(mr) EXCEPT !.pc = "return", !.result = body,
                                      !.log = Append(@, "200")]
    /\ UNCHANGED <<credentials, csrf_token, session_headers, stats, files,
                   pc, run, auth, pg, backend, invocation>>

\* AttemptSSLError handled like any other exception: retried
AttemptSSLError_Retried ==
    /\ mr.pc = "attempt"
    /\ faults < backend.max_faults
    /\ faults' = faults + 1
    /\ LET m == [GetSent(mr) EXCEPT !.log = Append(@, "ssl")] IN
        /\ mr' = RetryOrGiveUp(m)
        /\ stats' = ErrorsAfter(m, stats)
    /\ UNCHANGED <<credentials, csrf_token, session_headers, files, pc, run,
                   auth, pg, backend, invocation>>

\* except requests.exceptions.SSLError: log and return None
AttemptSSLError ==
    /\ mr.pc = "attempt"
    /\ faults < backend.max_faults
    /\ faults' = faults + 1
    /\ mr' = [GetSent(mr) EXCEPT !.pc = "return", !.result = None,
                                  !.log = Append(@, "ssl")]
    /\ UNCHANGED <<credentials, csrf_token, session_headers, stats, files,
                   pc, run, auth, pg, backend, invocation>>

\* Reauthenticates without the test of the attempt number
Reauthenticates_EveryAttempt(status, attempt) ==
    /\ status \in {"401", "403"}
    /\ HasCredentials

\* `if attempt == 0: if self.username and self.password:` under 401 / 403
Reauthenticates(status, attempt) ==
    /\ status \in {"401", "403"}
    /\ attempt = 0
    /\ HasCredentials

\* except requests.exceptions.HTTPError: on 401/403 of the first attempt run
\* the Authenticator again; then back off or give up.
AttemptHTTPError ==
    /\ mr.pc = "attempt"
    /\ faults < backend.max_faults
    /\ faults' = faults + 1
    /\ \E status \in ErrorStatuses :
        LET m == [GetSent(mr) EXCEPT !.log = Append(@, status)] IN
        IF Reauthenticates(status, mr.attempt)
        THEN /\ mr' = [m EXCEPT !.pc = "reauth", !.reauths = @ + 1]
             /\ auth' = AuthStart
             /\ UNCHANGED stats
        ELSE /\ mr' = RetryOrGiveUp(m)
             /\ stats' = ErrorsAfter(m, stats)
             /\ UNCHANGED auth
    /\ UNCHANGED <<credentials, csrf_token, session_headers, files, pc, run,
                   pg, backend, invocation>>

\* the HTTPError clause after authenticate_comprehensive has returned
AfterReauth ==
    /\ mr.pc = "reauth"
    /\ auth.pc = "done"
    /\ auth' = AuthIdle
    /\ mr' = RetryOrGiveUp(mr)
    /\ stats' = ErrorsAfter(mr, stats)
    /\ UNCHANGED <<credentials, csrf_token, session_headers, files, pc, run,
                   pg, backend, invocation, faults>>

\* except Exception (network failure, timeout, unparsable body): back off
\* or give up.
AttemptException ==
    /\ mr.pc = "attempt"
    /\ faults < backend.max_faults
    /\ faults' = faults + 1
    /\ LET m == [GetSent(mr) EXCEPT !.log = Append(@, "exc")] IN
        /\ mr' = RetryOrGiveUp(m)
        /\ stats' = ErrorsAfter(m, stats)
    /\ UNCHANGED <<credentials, csrf_token, session_headers, files, pc, run,
                   auth, pg, backend, invocation>>

---------------------------------------------------------------------------
(* Paginated Collector: collect_paginated_data *)

\* Entry of collect_paginated_data(endpoint, data_key, page_size)
CollectPaginatedData(ep, page_size) ==
    [PgIdle EXCEPT !.pc = "loop", !.ep = ep, !.page_size = page_size,
                   !.page = 1, !.errors0 = stats.errors]

\* Extend that puts the new page in front
Extend_Prepend(all_data, items) == items \o all_data

\* all_data.extend(items)
Extend(all_data, items) == all_data \o items

\* NoRecords that never stops the collection
NoRecords_Never(page, total_count) == FALSE

\* `if total_count == 0: break` on the first page
NoRecords(page, total_count) == page = 1 /\ total_count = 0

\* LastPageReached that never ends the loop
LastPageReached_Never(page, total_pages) == FALSE

\* LastPageReached that is off by one
LastPageReached_OffByOne(page, total_pages) == page > total_pages

\* `if page >= total_pages: break`
LastPageReached(page, total_pages) == page >= total_pages

\* Sleep that does not sleep
Sleep_Never(p) == p

\* time.sleep(0.5) at the end of the loop body: one more rate-limit delay
Sleep(p) == [p EXCEPT !.sleeps = @ + 1]

\* Top of the loop: data = self.make_request(url, {'page', 'pageSize'})
PageRequest ==
    /\ pg.pc = "loop"
    /\ mr.pc = "idle"
    /\ LET params == [page |-> pg.page, pageSize |-> pg.page_size] IN
        /\ mr' = MakeRequest(pg.ep, params)
        /\ pg' = [pg EXCEPT !.pc = "wait", !.requests = Append(@, params)]
    /\ UNCHANGED <<credentials, csrf_token, session_headers, stats, files,
                   pc, run, auth, backend, invocation, faults>>

\* PageFailed that throws away what was collected
PageFailed_Discard ==
    /\ pg.pc = "wait"
    /\ mr.pc = "return"
    /\ ~Truthy(mr.result)
    /\ pg' = [pg EXCEPT !.pc = "done", !.failed = pg.page,
                        !.cause = mr.log, !.all_data = <<>>]
    /\ mr' = MrIdle
    /\ UNCHANGED <<credentials, csrf_token, session_headers, stats, files,
                   pc, run, auth, backend, invocation, faults>>

\* `if not data:` log the failing page and break
PageFailed ==
    /\ pg.pc = "wait"
    /\ mr.pc = "return"
    /\ ~Truthy(mr.result)
    /\ pg' = [pg EXCEPT !.pc = "done", !.failed = pg.page,
                        !.cause = mr.log]
    /\ mr' = MrIdle
    /\ UNCHANGED <<credentials, csrf_token, session_headers, stats, files,
                   pc, run, auth, backend, invocation, faults>>

\* The rest of the loop body for a page that arrived: read the totals on page
\* 1 (and stop if the total count is 0), append the items, stop after the
\* last page, otherwise advance and sleep.
PageReceived ==
    /\ pg.pc = "wait"
    /\ mr.pc = "return"
    /\ Truthy(mr.result)
    /\ LET data == mr.result
           total_count == IF pg.page = 1 THEN {Get(data.totalCount, 0)}
                          ELSE pg.total_count
           total_pages == IF pg.page = 1 THEN {Get(data.lastPage, 1)}
                          ELSE pg.total_pages
           seen == [pg EXCEPT !.total_count = total_count,
                              !.total_pages = total_pages,
                              !.fetched = Append(@, data.items)]
       IN
        IF NoRecords(pg.page, Get(total_count, 0))
        THEN pg' = [seen EXCEPT !.pc = "done"]
        ELSE LET got == [seen EXCEPT !.all_data = Extend(@, data.items)] IN
             IF LastPageReached(pg.page, Get(total_pages, 1))
             THEN pg' = [got EXCEPT !.pc = "done"]
             ELSE pg' = Sleep([got EXCEPT !.pc = "loop", !.page = @ + 1])
    /\ mr' = MrIdle
    /\ UNCHANGED <<credentials, csrf_token, session_headers, stats, files,
                   pc, run, auth, backend, invocation, faults>>

---------------------------------------------------------------------------
(* A direct call of the Paginated Collector on a constructed collector *)

\* the site-scoped endpoints and the page sizes their collectors pass
SiteCalls ==
    { <<SiteEndpoint("structured-contents"), 20>>,
      <<SiteEndpoint("structured-content-folders"), 10>> }

CallCollectPaginatedData ==
    /\ pc = "ready"
    /\ pg.pc = "idle"
    /\ \E call \in SiteCalls : pg' = CollectPaginatedData(call[1], call[2])
    /\ pc' = "collecting"
    /\ UNCHANGED <<credentials, csrf_token, session_headers, stats, files,
                   run, auth, mr, backend, invocation, faults>>

---------------------------------------------------------------------------
(* The output directory *)

\* WriteFile that opens the file for appending
WriteFile_Append(fs, name, content) ==
    LET old == {f \in fs : f.name = name} IN
    {f \in fs : f.name # name} \cup
    {[name |-> name,
      content |-> (IF old = {} THEN <<>>
                   ELSE (CHOOSE f \in old : TRUE).content) \o content,
      complete |-> TRUE]}

\* open(filename, 'w') and json.dump(content), run to the end: the file
\* holds content, one complete JSON value
WriteFile(fs, name, content) ==
    {f \in fs : f.name # name} \cup
    {[name |-> name, content |-> content, complete |-> TRUE]}

\* open(filename, 'w') truncates the file and json.dump writes the value
\* piece by piece; cut short, the file holds the beginning of the JSON text
PartialFile(fs, name) ==
    {f \in fs : f.name # name} \cup
    {[name |-> name, content |-> <<>>, complete |-> FALSE]}

\* the file of a site resource, and of the documents of one folder
ResourceFile(file) == [file |-> file, folder |-> NoFolder]
\* FolderFile that names the file of the document folders
FolderFile_Clash(folder_id) == ResourceFile("document_folders.json")
FolderFile(folder_id) == [file |-> "documents_folder", folder |-> folder_id]

---------------------------------------------------------------------------
(* Resource Collectors *)

\* Collectors with the site pages collected before the content folders
Collectors_Swapped ==
    << [name |-> "structured_contents", res |-> "structured-contents",
        page_size |-> 20, file |-> "structured_contents.json"],
       [name |-> "site_pages", res |-> "site-pages",
        page_size |-> 10, file |-> "site_pages.json"],
       [name |-> "content_folders", res |-> "structured-content-folders",
        page_size |-> 10, file |-> "content_folders.json"],
       [name |-> "document_folders", res |-> "document-folders",
        page_size |-> 20, file |-> "document_folders.json"] >>

\* collect_structured_contents, collect_content_folders, collect_site_pages
\* and collect_document_folders, in the order in which run_full_collection
\* calls them: endpoint, page size, file and statistic
Collectors ==
    << [name |-> "structured_contents", res |-> "structured-contents",
        page_size |-> 20, file |-> "structured_contents.json"],
       [name |-> "content_folders", res |-> "structured-content-folders",
        page_size |-> 10, file |-> "content_folders.json"],
       [name |-> "site_pages", res |-> "site-pages",
        page_size |-> 10, file |-> "site_pages.json"],
       [name |-> "document_folders", res |-> "document-folders",
        page_size |-> 20, file |-> "document_folders.json"] >>

\* folder.get('id') and folder.get('name', ...) of a folder record
FolderId(folder) == <<folder.page, folder.k>>
FolderName(folder) == <<"name", folder.page, folder.k>>

\* doc['source_folder'] = {'id': folder_id, 'name': folder_name}
Annotate(doc, folder) ==
    [ep |-> doc.ep, page |-> doc.page, k |-> doc.k,
     source_folder |-> [id |-> FolderId(folder), name |-> FolderName(folder)]]

\* the documents of a folder, each with its source folder
AnnotateAll(documents, folder) ==
    [j \in 1..Len(documents) |-> Annotate(documents[j], folder)]

\* SaveFolder that writes a file for every folder
SaveFolder_Always(fs, folder, documents) ==
    WriteFile(fs, FolderFile(FolderId(folder)), documents)

\* `if documents:` the folder's documents go to the folder's own file
SaveFolder(fs, folder, documents) ==
    IF documents # <<>>
    THEN WriteFile(fs, FolderFile(FolderId(folder)), documents)
    ELSE fs

\* SaveDataset that writes the file of an empty dataset too
SaveDataset_Always(fs, name, data) == WriteFile(fs, name, data)

\* `if data:` ... json.dump(data, f): an empty dataset writes no file
SaveDataset(fs, name, data) ==
    IF data # <<>> THEN WriteFile(fs, name, data) ELSE fs

\* A collector calls collect_paginated_data on its endpoint.
CollectorCall ==
    /\ pc = "collect"
    /\ pg.pc = "idle"
    /\ LET c == Collectors[run.step] IN
        pg' = CollectPaginatedData(SiteEndpoint(c.res), c.page_size)
    /\ pc' = "collect_wait"
    /\ UNCHANGED <<credentials, csrf_token, session_headers, stats, files,
                   run, auth, mr, backend, invocation, faults>>

\* `if data:` write the file and set the statistic.  Then the coordinator
\* goes on: to the next collector, after the document folders to the
\* documents (`if document_folders:`), otherwise to the summary.
CollectorSave ==
    /\ pc = "collect_wait"
    /\ pg.pc = "done"
    /\ LET c == Collectors[run.step]
           data == pg.all_data
       IN
        /\ files' = SaveDataset(files, ResourceFile(c.file), data)
        /\ stats' = IF data # <<>> THEN [stats EXCEPT ![c.name] = Len(data)]
                     ELSE stats
        /\ IF run.step < Len(Collectors)
           THEN /\ run' = [run EXCEPT !.step = @ + 1]
                /\ pc' = "collect"
           ELSE /\ run' = [run EXCEPT !.document_folders = data, !.i = 1,
                                      !.all_documents = <<>>]
                /\ pc' = IF data # <<>> THEN "documents" ELSE "summary"
    /\ pg' = PgIdle
    /\ UNCHANGED <<credentials, csrf_token, session_headers, auth, mr,
                   backend, invocation, faults>>

\* collect_documents_from_folders, top of the loop over the folders
DocumentsCall ==
    /\ pc = "documents"
    /\ pg.pc = "idle"
    /\ LET folder == run.document_folders[run.i] IN
        pg' = CollectPaginatedData(
                  [res |-> "documents", folder |-> FolderId(folder)], 20)
    /\ pc' = "documents_wait"
    /\ UNCHANGED <<credentials, csrf_token, session_headers, stats, files,
                   run, auth, mr, backend, invocation, faults>>

\* The rest of the loop body: annotate the documents, extend all_documents,
\* write the folder's file if it has documents.  After the last folder the
\* consolidated file is written and the statistic set if there is any
\* document.
DocumentsSave ==
    /\ pc = "documents_wait"
    /\ pg.pc = "done"
    /\ LET folder == run.document_folders[run.i]
           documents == AnnotateAll(pg.all_data, folder)
           all_documents == run.all_documents \o documents
           folder_files == SaveFolder(files, folder, documents)
       IN
        IF run.i < Len(run.document_folders)
        THEN /\ run' = [run EXCEPT !.i = @ + 1,
                                   !.all_documents = all_documents]
             /\ files' = folder_files
             /\ pc' = "documents"
             /\ UNCHANGED stats
        ELSE /\ run' = [run EXCEPT !.all_documents = all_documents]
             /\ pc' = "summary"
             /\ files' = SaveDataset(folder_files,
                                     ResourceFile("all_documents.json"),
                                     all_documents)
             /\ stats' = IF all_documents # <<>>
                          THEN [stats EXCEPT !.documents = Len(all_documents)]
                          ELSE stats
    /\ pg' = PgIdle
    /\ UNCHANGED <<credentials, csrf_token, session_headers, auth, mr,
                   backend, invocation, faults>>

\* Estatisticas with the two folder counts exchanged
Estatisticas_Swapped(st) ==
    [conteudos_estruturados |-> st.structured_contents,
     pastas_de_conteudo     |-> st.document_folders,
     paginas_do_site        |-> st.site_pages,
     pastas_de_documentos   |-> st.content_folders,
     documentos             |-> st.documents,
     erros                  |-> st.errors]

\* summary['estatisticas']: the statistics under the keys of the report
Estatisticas(st) ==
    [conteudos_estruturados |-> st.structured_contents,
     pastas_de_conteudo     |-> st.content_folders,
     paginas_do_site        |-> st.site_pages,
     pastas_de_documentos   |-> st.document_folders,
     documentos             |-> st.documents,
     erros                  |-> st.errors]

\* generate_summary_report: the statistics and the configuration go to
\* summary_report.json (the time stamp and the duration are left out)
GenerateSummaryReport ==
    /\ pc = "summary"
    /\ files' = WriteFile(files, ResourceFile("summary_report.json"),
                          <<[estatisticas |-> Estatisticas(stats),
                             csrf_token_obtido |-> csrf_token # "none"]>>)
    /\ pc' = "done"
    /\ UNCHANGED <<credentials, csrf_token, session_headers, stats, run,
                   auth, mr, pg, backend, invocation, faults>>

---------------------------------------------------------------------------
(* Run Coordinator: run_full_collection and test_api_access *)

\* test_urls of test_api_access
TestUrls == <<"site", "sites", "current-user">>

\* run_full_collection starts with the access test
RunFullCollection ==
    /\ pc = "ready"
    /\ pc' = "access"
    /\ run' = [RunIdle EXCEPT !.probe = 1]
    /\ UNCHANGED <<credentials, csrf_token, session_headers, stats, files,
                   auth, mr, pg, backend, invocation, faults>>

\* test_api_access: response = self.make_request(test_url)
AccessProbe ==
    /\ pc = "access"
    /\ mr.pc = "idle"
    /\ mr' = MakeRequest(SiteEndpoint(TestUrls[run.probe]), NoParams)
    /\ pc' = "access_wait"
    /\ UNCHANGED <<credentials, csrf_token, session_headers, stats, files,
                   run, auth, pg, backend, invocation, faults>>

\* AccessProbed that goes through all test URLs before it decides
AccessProbed_ProbeAll ==
    /\ pc = "access_wait"
    /\ mr.pc = "return"
    /\ IF run.probe < Len(TestUrls)
       THEN /\ pc' = "access"
            /\ run' = [run EXCEPT !.probe = @ + 1]
       ELSE IF Truthy(mr.result)
            THEN /\ pc' = "collect"
                 /\ run' = [run EXCEPT !.step = 1]
            ELSE /\ pc' = "failed"
                 /\ UNCHANGED run
    /\ mr' = MrIdle
    /\ UNCHANGED <<credentials, csrf_token, session_headers, stats, files,
                   auth, pg, backend, invocation, faults>>

\* `if response:` the API is accessible and the collection starts; otherwise
\* the next URL is probed, and after the last one the run is aborted.
AccessProbed ==
    /\ pc = "access_wait"
    /\ mr.pc = "return"
    /\ IF Truthy(mr.result)
       THEN /\ pc' = "collect"
            /\ run' = [run EXCEPT !.step = 1]
       ELSE IF run.probe < Len(TestUrls)
            THEN /\ pc' = "access"
                 /\ run' = [run EXCEPT !.probe = @ + 1]
            ELSE /\ pc' = "failed"
                 /\ UNCHANGED run
    /\ mr' = MrIdle
    /\ UNCHANGED <<credentials, csrf_token, session_headers, stats, files,
                   auth, pg, backend, invocation, faults>>

\* An exception while a collector writes its file (open or json.dump raises)
\* is caught by run_full_collection, which logs it and returns False.
CollectionError ==
    /\ pc \in {"collect_wait", "documents_wait"}
    /\ pg.pc = "done"
    /\ pg.all_data # <<>>
    /\ pc' = "failed"
    /\ pg' = PgIdle
    /\ UNCHANGED <<credentials, csrf_token, session_headers, stats, files,
                   run, auth, mr, backend, invocation, faults>>

---------------------------------------------------------------------------
(* User interrupt: KeyboardInterrupt propagates to main, which ends the
   process; no handler of the collector catches it. *)

\* the positions of a collector under construction or in a run
Running ==
    {"init", "ready", "access", "access_wait", "collect", "collect_wait",
     "documents", "documents_wait", "summary"}

\* the call stack is unwound: every frame is gone
Unwound ==
    /\ run' = RunIdle
    /\ auth' = AuthIdle
    /\ mr' = MrIdle
    /\ pg' = PgIdle

\* The interrupt arrives anywhere but inside a json.dump.
KeyboardInterrupt ==
    /\ pc \in Running
    /\ pc' = "interrupted"
    /\ Unwound
    /\ UNCHANGED <<credentials, csrf_token, session_headers, stats, files,
                   backend, invocation, faults>>

\* The files a step is about to write, each with the output directory as it
\* is when that write starts.
PendingWrites ==
    CASE pc = "collect_wait" /\ pg.pc = "done" /\ pg.all_data # <<>> ->
           {[fs |-> files, name |-> ResourceFile(Collectors[run.step].file)]}
      [] pc = "documents_wait" /\ pg.pc = "done" ->
           LET folder == run.document_folders[run.i]
               documents == AnnotateAll(pg.all_data, folder)
               all_documents == run.all_documents \o documents
           IN  {[fs |-> files, name |-> FolderFile(FolderId(folder))] :
                    x \in IF documents # <<>> THEN {1} ELSE {}}
               \cup
               {[fs |-> SaveFolder(files, folder, documents),
                 name |-> ResourceFile("all_documents.json")] :
                    x \in IF /\ run.i = Len(run.document_folders)
                              /\ all_documents # <<>>
                           THEN {1} ELSE {}}
      [] pc = "summary" ->
           {[fs |-> files, name |-> ResourceFile("summary_report.json")]}
      [] OTHER -> {}

\* The interrupt arrives inside the json.dump of a file.
InterruptedWrite ==
    /\ pc \in Running
    /\ \E w \in PendingWrites : files' = PartialFile(w.fs, w.name)
    /\ pc' = "interrupted"
    /\ Unwound
    /\ UNCHANGED <<credentials, csrf_token, session_headers, stats, backend,
                   invocation, faults>>

---------------------------------------------------------------------------
(* The command line: main() of main.py *)

\* the process ends with this exit status
Exit(code) ==
    /\ pc' = "exited"
    /\ invocation' = [invocation EXCEPT !.exit_code = code]

\* From the parsed arguments to the construction of the collector: missing
\* credentials and an empty selection are reported and main returns, a dry
\* run prints the configuration and main returns.  A return from main ends
\* the process with exit status 0.
MainPreflight ==
    /\ pc = "main"
    /\ IF \/ ~HasCredentials
          \/ invocation.collect_options = {}
          \/ invocation.dry_run
       THEN Exit(0)
       ELSE pc' = "new" /\ UNCHANGED invocation
    /\ UNCHANGED <<credentials, csrf_token, session_headers, stats, files,
                   run, auth, mr, pg, backend, faults>>

\* the collector is constructed: document_folders = []
MainStart ==
    /\ pc = "ready"
    /\ pc' = "collect"
    /\ run' = [RunIdle EXCEPT !.step = 1]
    /\ UNCHANGED <<credentials, csrf_token, session_headers, stats, files,
                   auth, mr, pg, backend, invocation, faults>>

\* After the collector of this step: the next one; after the last one the
\* documents if they are selected and there are folders, else the summary.
MainAfter(step, document_folders) ==
    IF step < Len(Collectors)
    THEN /\ run' = [run EXCEPT !.step = @ + 1]
         /\ pc' = "collect"
    ELSE /\ run' = [run EXCEPT !.document_folders = document_folders,
                               !.i = 1, !.all_documents = <<>>]
         /\ pc' = IF /\ "documents" \in invocation.collect_options
                     /\ document_folders # <<>>
                  THEN "documents" ELSE "summary"

\* `if collect_options[...]:` a selected collector is called, one that is
\* not selected is passed over
MainCollectorCall ==
    /\ pc = "collect"
    /\ pg.pc = "idle"
    /\ LET c == Collectors[run.step] IN
        IF c.name \in invocation.collect_options
        THEN /\ pg' = CollectPaginatedData(SiteEndpoint(c.res), c.page_size)
             /\ pc' = "collect_wait"
             /\ UNCHANGED run
        ELSE /\ MainAfter(run.step, <<>>)
             /\ UNCHANGED pg
    /\ UNCHANGED <<credentials, csrf_token, session_headers, stats, files,
                   auth, mr, backend, invocation, faults>>

\* the collector saves its dataset and returns to main
MainCollectorSave ==
    /\ pc = "collect_wait"
    /\ pg.pc = "done"
    /\ LET c == Collectors[run.step]
           data == pg.all_data
       IN
        /\ files' = SaveDataset(files, ResourceFile(c.file), data)
        /\ stats' = IF data # <<>> THEN [stats EXCEPT ![c.name] = Len(data)]
                     ELSE stats
        /\ MainAfter(run.step, data)
    /\ pg' = PgIdle
    /\ UNCHANGED <<credentials, csrf_token, session_headers, auth, mr,
                   backend, invocation, faults>>

\* main returns after the summary
MainReturn ==
    /\ pc = "done"
    /\ Exit(0)
    /\ UNCHANGED <<credentials, csrf_token, session_headers, stats, files,
                   run, auth, mr, pg, backend, faults>>

\* `except Exception:` an exception while a collector writes its file ends
\* the process with sys.exit(1)
MainException ==
    /\ pc \in {"collect_wait", "documents_wait"}
    /\ pg.pc = "done"
    /\ pg.all_data # <<>>
    /\ Exit(1)
    /\ Unwound
    /\ UNCHANGED <<credentials, csrf_token, session_headers, stats, files,
                   backend, faults>>

\* `except KeyboardInterrupt:` sys.exit(1)
MainInterrupted ==
    /\ pc = "interrupted"
    /\ Exit(1)
    /\ UNCHANGED <<credentials, csrf_token, session_headers, stats, files,
                   run, auth, mr, pg, backend, faults>>

---------------------------------------------------------------------------
(* Specifications *)

InitCommon ==
    /\ credentials \in {"none", "ascii", "non_ascii"}
    /\ csrf_token \in {"none", "given"}
    /\ session_headers = [Authorization |-> "none", X_CSRF_Token |-> "none"]
    /\ stats = StatsZero
    /\ files = {}
    /\ run = RunIdle
    /\ auth = AuthIdle
    /\ mr = MrIdle
    /\ pg = PgIdle
    /\ faults = 0

InitPaginated ==
    /\ InitCommon
    /\ pc = "new"
    /\ backend = RichBackend
    /\ invocation = Direct

NextPaginated ==
    \/ Construct \/ InitStats
    \/ TryBasicAuth \/ TryWebLogin \/ TryJsonwsLogin \/ TryOAuth2
    \/ FindCsrfTokenGet \/ FindCsrfToken
    \/ AttemptOk \/ AttemptSSLError \/ AttemptHTTPError \/ AfterReauth
    \/ AttemptException
    \/ CallCollectPaginatedData \/ PageRequest \/ PageFailed \/ PageReceived

\* construction followed by one call of collect_paginated_data
SpecPaginated == InitPaginated /\ [][NextPaginated]_vars

Init ==
    /\ InitCommon
    /\ pc = "new"
    /\ backend \in {MockBackend, MockBackendFull}
    /\ invocation = Direct

Next ==
    \/ Construct \/ InitStats
    \/ TryBasicAuth \/ TryWebLogin \/ TryJsonwsLogin \/ TryOAuth2
    \/ FindCsrfTokenGet \/ FindCsrfToken
    \/ AttemptOk \/ AttemptSSLError \/ AttemptHTTPError \/ AfterReauth
    \/ AttemptException
    \/ PageRequest \/ PageFailed \/ PageReceived
    \/ RunFullCollection \/ AccessProbe \/ AccessProbed
    \/ CollectorCall \/ CollectorSave \/ DocumentsCall \/ DocumentsSave
    \/ CollectionError \/ GenerateSummaryReport
    \/ KeyboardInterrupt \/ InterruptedWrite

\* construction followed by run_full_collection
Spec == Init /\ [][Next]_vars

\* the selections of the command line the model goes through
OptionSets ==
    { {}, AllOptions, {"structured_contents"}, {"documents"},
      {"site_pages", "document_folders", "documents"} }

InitMain ==
    /\ InitCommon
    /\ pc = "main"
    /\ backend = MockBackend
    /\ invocation \in
          [collect_options : OptionSets, dry_run : BOOLEAN,
           exit_code : {"none"}, number : {1}, left : {{}}]

NextMain ==
    \/ MainPreflight
    \/ Construct \/ InitStats
    \/ TryBasicAuth \/ TryWebLogin \/ TryJsonwsLogin \/ TryOAuth2
    \/ FindCsrfTokenGet \/ FindCsrfToken
    \/ AttemptOk \/ AttemptSSLError \/ AttemptHTTPError \/ AfterReauth
    \/ AttemptException
    \/ PageRequest \/ PageFailed \/ PageReceived
    \/ MainStart \/ MainCollectorCall \/ MainCollectorSave
    \/ DocumentsCall \/ DocumentsSave \/ GenerateSummaryReport
    \/ MainReturn \/ MainException
    \/ KeyboardInterrupt \/ InterruptedWrite \/ MainInterrupted

\* one run of main.py
SpecMain == InitMain /\ [][NextMain]_vars

---------------------------------------------------------------------------
(* Two runs against a deterministic backend *)

\* what a GET of the scripted backend gives instead of a JSON body
FaultOutcomes == {"empty", "ssl", "exc"} \cup ErrorStatuses

\* The scripts of a deterministic backend with the contents of
\* MockBackendFull: which login strategy it accepts if any, whether its
\* login page carries a token, what every candidate URL of the token search
\* answers, and one fault: the GETs of page `page` of resource `res` end
\* with `outcome` on the attempts before attempt `upto`.
Scripts ==
    [login : {"none", "web", "oauth2"},
     login_token : BOOLEAN,
     csrf : {"error", "header", "body"},
     fault : [res : SiteResources \cup {"site", "documents"},
              page : 0..MaxLastPage,
              upto : {0, 1, max_retries},
              outcome : FaultOutcomes]]

\* the answer of the scripted backend to an attempt of a GET
Planned(ep, params, attempt) ==
    LET fault == backend.script.fault IN
    IF /\ fault.res = ep.res
       /\ fault.page = params.page
       /\ attempt < fault.upto
    THEN fault.outcome ELSE "ok"

\* how the attempt that make_request has just made ended
Outcome(m) ==
    LET last == m.log[Len(m.log)] IN
    IF last # "200" THEN last
    ELSE IF m.result = EmptyBody THEN "empty" ELSE "ok"

\* the attempt of this step got the answer of the script
Answered == Outcome(mr') = Planned(mr.ep, mr.params, mr.attempt)

\* the login strategy of this step got the answer of the script
LoginAnswered ==
    /\ auth'.trace[Len(auth'.trace)].ok = (backend.script.login = auth.pc)
    /\ csrf_token' = IF auth.pc = "web" /\ backend.script.login_token
                     THEN "login" ELSE csrf_token

\* the candidate URL of this step got the answer of the script
CsrfAnswered == mr'.csrf_response = backend.script.csrf

\* the dataset files of an output directory: all but the summary
DatasetFiles(fs) ==
    {f \in fs : f.name # ResourceFile("summary_report.json")}

\* main() of liferay_collector.py is run a second time, with the
\* configuration it has in its source and into the same output directory
Rerun ==
    /\ pc \in {"done", "failed"}
    /\ invocation.number = 1
    /\ invocation' = [invocation EXCEPT !.number = 2,
                                        !.left = DatasetFiles(files)]
    /\ pc' = "new"
    /\ csrf_token' = "none"
    /\ session_headers' = NoHeaders
    /\ stats' = StatsZero
    /\ faults' = 0
    /\ Unwound
    /\ UNCHANGED <<credentials, files, backend>>

\* main() constructs the collector with a username and a password and
\* without a token
InitRerun ==
    /\ InitCommon
    /\ credentials = "ascii"
    /\ csrf_token = "none"
    /\ pc = "new"
    /\ \E script \in Scripts :
          backend = [site          |-> MockBackendFull.site,
                     first_folder  |-> MockBackendFull.first_folder,
                     other_folders |-> MockBackendFull.other_folders,
                     max_faults    |-> max_retries * (MaxLastPage + 1),
                     script        |-> script]
    /\ invocation = Direct

NextRerun ==
    \/ Construct \/ InitStats
    \/ TryBasicAuth /\ LoginAnswered
    \/ TryWebLogin /\ LoginAnswered
    \/ TryJsonwsLogin /\ LoginAnswered
    \/ TryOAuth2 /\ LoginAnswered
    \/ FindCsrfTokenGet /\ CsrfAnswered
    \/ FindCsrfToken
    \/ AttemptOk /\ Answered
    \/ AttemptSSLError /\ Answered
    \/ AttemptHTTPError /\ Answered
    \/ AttemptException /\ Answered
    \/ AfterReauth
    \/ PageRequest \/ PageFailed \/ PageReceived
    \/ RunFullCollection \/ AccessProbe \/ AccessProbed
    \/ CollectorCall \/ CollectorSave \/ DocumentsCall \/ DocumentsSave
    \/ GenerateSummaryReport
    \/ Rerun

\* two runs to their end, one after the other, of construction and
\* run_full_collection against the same scripted backend
SpecRerun == InitRerun /\ [][NextRerun]_vars

---------------------------------------------------------------------------
(* Properties *)

RECURSIVE Flatten(_)
\* the concatenation of a sequence of sequences
Flatten(pages) ==
    IF pages = <<>> THEN <<>> ELSE Head(pages) \o Flatten(Tail(pages))

RECURSIVE SumLen(_)
\* the sum of the lengths of a sequence of sequences
SumLen(pages) ==
    IF pages = <<>> THEN 0 ELSE Len(Head(pages)) + SumLen(Tail(pages))

\* items are in page-ascending order, and within a page in the order in
\* which the backend served them
PageOrdered(items) ==
    \A i, j \in 1..Len(items) :
        i < j => \/ items[i].page < items[j].page
                 \/ items[i].page = items[j].page /\ items[i].k < items[j].k

\* the page requests 1, 2, ..., n with one page size
RequestsUpTo(n, page_size) ==
    [i \in 1..n |-> [page |-> i, pageSize |-> page_size]]

\* C1 as stated: what collect_paginated_data returns is in page-ascending,
\* within-page original order, and its length is the sum of the item counts
\* of the pages fetched successfully (at most that sum after a failed fetch).
C1_Original ==
    pg.pc = "done" =>
        /\ PageOrdered(pg.all_data)
        /\ (pg.failed = 0) => Len(pg.all_data) = SumLen(pg.fetched)
        /\ (pg.failed # 0) => Len(pg.all_data) <= SumLen(pg.fetched)

\* C1 amended: at every point of collect_paginated_data the accumulated
\* items are the items of the pages fetched so far, in page-ascending order
\* and within a page in the order served, so the returned count is the sum of
\* the item counts of those pages -- unless page 1 reported a total count of
\* 0 (or none), and then nothing is returned whatever items page 1 carried.
C1_PagesInOrder ==
    /\ PageOrdered(pg.all_data)
    /\ \A i \in 1..Len(pg.fetched) :
          \A j \in 1..Len(pg.fetched[i]) : pg.fetched[i][j].page = i
    /\ IF pg.total_count = {0}
       THEN pg.all_data = <<>>
       ELSE /\ pg.all_data = Flatten(pg.fetched)
            /\ Len(pg.all_data) = SumLen(pg.fetched)

\* C1 witness: a collection that returned several items from several pages
C1_Witness ==
    /\ pg.pc = "done"
    /\ Len(pg.fetched) >= 2
    /\ Len(pg.fetched[1]) >= 2
    /\ Len(pg.fetched[2]) >= 1
    /\ Len(pg.all_data) >= 3

\* C2: once page 1 has reported a total count of 0 the collection is over:
\* the result is empty and page 1 is the only page request made, whatever
\* lastPage and items page 1 carried.
C2_ZeroTotalStops ==
    (pg.total_count = {0}) =>
        /\ pg.pc = "done"
        /\ pg.all_data = <<>>
        /\ pg.requests = RequestsUpTo(1, pg.page_size)
        /\ mr.pc = "idle"

\* C2 witness: page 1 reported totalCount 0 with lastPage 2 and items
C2_Witness ==
    /\ pg.pc = "done"
    /\ pg.total_count = {0}
    /\ pg.total_pages = {2}
    /\ Len(pg.fetched) = 1
    /\ pg.fetched[1] # <<>>

\* C3: a collection that ended without a failed fetch, whose page 1 reported
\* a total count above 0 and lastPage = L >= 1, made exactly the page
\* requests 1, 2, ..., L in this order, each with the same page size, and
\* returned the items of all L pages.
C3_RequestsOneToLastPage ==
    (/\ pg.pc = "done"
     /\ pg.failed = 0
     /\ pg.total_count # {0}
     /\ Get(pg.total_pages, 1) >= 1) =>
        /\ pg.requests = RequestsUpTo(Get(pg.total_pages, 1), pg.page_size)
        /\ Len(pg.fetched) = Get(pg.total_pages, 1)
        /\ Len(pg.all_data) = SumLen(pg.fetched)

\* C3 witness: a complete collection of more than one page
C3_Witness ==
    /\ pg.pc = "done"
    /\ pg.failed = 0
    /\ pg.total_count = {45}
    /\ pg.total_pages = {2}
    /\ Len(pg.requests) = 2
    /\ Len(pg.all_data) = 4

\* C4: when the fetch of page k gives no result the collection is over: page
\* k is the last page requested, and the result is exactly what pages
\* 1..k-1 delivered.
C4_PartialResult ==
    (pg.failed # 0) =>
        /\ pg.pc = "done"
        /\ mr.pc = "idle"
        /\ pg.requests = RequestsUpTo(pg.failed, pg.page_size)
        /\ Len(pg.fetched) = pg.failed - 1
        /\ pg.all_data = Flatten(pg.fetched)

\* C4 witness: page 2 failed after page 1 had delivered items
C4_Witness ==
    /\ pg.failed = 2
    /\ pg.all_data # <<>>

\* the failures make_request retries
Retryable == {"401", "403", "500", "exc"}

\* C5: make_request issues at most max_retries GETs; when max_retries
\* attempts failed with retryable failures it has returned None and has
\* incremented the error counter by exactly one.
C5_BoundedAttempts ==
    /\ Len(mr.log) <= max_retries
    /\ (/\ Len(mr.log) = max_retries
        /\ \A i \in 1..Len(mr.log) : mr.log[i] \in Retryable) =>
           /\ mr.pc = "return"
           /\ mr.result = None
           /\ stats.errors = mr.errors0 + 1
    /\ (mr.pc \in {"csrf", "csrf_scan", "attempt", "reauth"}) =>
          stats.errors = mr.errors0

\* C5 witness: three failed attempts, by HTTP status and by exception
C5_Witness ==
    /\ mr.pc = "return"
    /\ mr.log = <<"500", "exc", "403">>

\* C6 as stated: a 401 or 403 on the first attempt has triggered exactly one
\* run of the Authenticator when the retry starts.
C6_Original ==
    (/\ mr.pc = "attempt"
     /\ mr.attempt >= 1
     /\ mr.log[1] \in {"401", "403"}) => mr.reauths = 1

\* C6 amended: with a username and password configured, a 401 or 403 on the
\* first attempt triggers exactly one run of the Authenticator, which has
\* finished when the retry starts; without credentials it triggers none.  A
\* 401 or 403 on a later attempt triggers none, so a call re-authenticates
\* at most once.
C6_OneReauthentication ==
    /\ mr.reauths <= 1
    /\ (mr.log # <<>>) =>
          mr.reauths = IF mr.log[1] \in {"401", "403"} /\ HasCredentials
                       THEN 1 ELSE 0
    /\ (mr.pc = "attempt") => auth.pc = "idle"
    /\ (auth.pc \notin {"idle", "done"} /\ pc # "init") =>
          mr.pc = "reauth" /\ mr.attempt = 0

\* C6 witness: 403 on the first and on the second attempt, one
\* re-authentication
C6_Witness ==
    /\ mr.log = <<"403", "403">>
    /\ mr.reauths = 1
    /\ mr.pc = "attempt"

\* the delays of the default three attempts
ExpectedDelays == <<1, 2>>

\* C7: the delays taken so far in a call are 1s, 2s, ...: one after each
\* failed attempt that was followed by another attempt, none after the
\* final attempt.
C7_ExponentialBackoff ==
    /\ Len(mr.delays) <= Len(ExpectedDelays)
    /\ mr.delays = SubSeq(ExpectedDelays, 1, Len(mr.delays))
    /\ Len(mr.delays) = IF mr.pc \in {"return", "reauth"}
                        THEN Len(mr.log) - 1 ELSE Len(mr.log)

\* C7 witness: an HTTP failure, then an exception, then the last attempt
C7_Witness ==
    /\ mr.pc = "return"
    /\ mr.delays = <<1, 2>>
    /\ mr.log[1] = "500"
    /\ mr.log[2] = "exc"

\* TRUE iff the last GET of the log raised a TLS error
EndsWithSSL(log) == log # <<>> /\ log[Len(log)] = "ssl"

C9_Claim ==
    (/\ pg.pc = "done"
     /\ pg.failed = 1
     /\ pg.cause = <<"ssl">>
     /\ csrf_token \in {"none", "given"}) => stats.errors = pg.errors0 + 1

\* C10: in a run of authenticate_comprehensive the strategies attempted so
\* far are the first ones of Basic, Form, Token-endpoint, OAuth2, each once
\* and in this order; all but the last attempted have failed; the run goes on
\* exactly while the last one has failed and a strategy is left.
C10_StrategiesInOrder ==
    LET n == Len(auth.trace) IN
    /\ n <= Len(Strategies)
    /\ \A i \in 1..n : auth.trace[i].strategy = Strategies[i]
    /\ \A i \in 1..n : (i < n) => ~auth.trace[i].ok
    /\ (auth.pc = "done") => (auth.trace[n].ok \/ n = Len(Strategies))
    /\ (auth.pc \notin {"idle", "done"}) =>
          /\ n < Len(Strategies)
          /\ auth.pc = Strategies[n + 1]
          /\ \A i \in 1..n : ~auth.trace[i].ok

\* C10 witness: only the third strategy succeeded
C10_Witness ==
    /\ auth.pc = "done"
    /\ Len(auth.trace) = 3
    /\ ~auth.trace[1].ok
    /\ ~auth.trace[2].ok
    /\ auth.trace[3].ok

\* TRUE iff every strategy of the finished run of the Authenticator failed
AllStrategiesFailed ==
    /\ auth.pc = "done"
    /\ Len(auth.trace) = Len(Strategies)
    /\ \A i \in 1..Len(auth.trace) : ~auth.trace[i].ok

\* C11: when every authentication strategy has failed during construction,
\* construction goes on and the session, whose headers every later request
\* carries, holds no authorization credential.
C11_Claim ==
    (pc = "init" /\ AllStrategiesFailed) =>
        session_headers.Authorization = "none"

\* TRUE iff this step sends an API GET, a CSRF discovery GET
RequestSent == Len(mr'.log) > Len(mr.log)
DiscoverySent == mr.pc = "csrf" /\ mr'.pc = "csrf_scan"

\* TRUE iff this step is a strategy of the Authenticator that sent a request
ProbeSent ==
    /\ Len(auth'.trace) > Len(auth.trace)
    /\ ~(auth.pc = "basic" /\ credentials = "non_ascii")

\* C12: the Authorization header of the session is never cleared; it changes
\* only when try_basic_auth or try_oauth2 installs a credential; and every
\* request sent through the session (API GET, CSRF discovery GET,
\* authentication probe) carries the credential the session holds when the
\* request is sent.
C12_CredentialPersists ==
    /\ [][session_headers.Authorization # "none" =>
            session_headers'.Authorization # "none"]_vars
    /\ [][session_headers'.Authorization # session_headers.Authorization =>
            \/ auth.pc = "basic" /\ session_headers'.Authorization = "Basic"
            \/ auth.pc = "oauth2" /\ session_headers'.Authorization = "Bearer"]_vars
    /\ [][(RequestSent \/ DiscoverySent) =>
            mr'.sent.Authorization = session_headers.Authorization]_vars
    /\ [][ProbeSent =>
            auth'.sent.Authorization =
                IF auth.pc = "basic" THEN "Basic"
                ELSE session_headers.Authorization]_vars

\* C12 witness: after a 401 the Authenticator replaced the Basic credential
\* by a Bearer credential, and the retry carried the Bearer credential
C12_Witness ==
    /\ mr.log = <<"401", "200">>
    /\ mr.reauths = 1
    /\ session_headers.Authorization = "Bearer"
    /\ mr.sent.Authorization = "Bearer"

\* the order of the collectors of a full run
CollectorOrder ==
    <<"structured-contents", "structured-content-folders", "site-pages",
      "document-folders">>

\* TRUE iff the file is in the output directory with this content
Holds(name, content) ==
    [name |-> name, content |-> content, complete |-> TRUE] \in files

\* C13: after the access check the collectors run in the order structured
\* contents, content folders, site pages, document folders, documents; a
\* collector starts only when the one before it has returned; the documents
\* are collected only after the document folders, from exactly the folders
\* that collector returned (and saved), one after the other.
C13_CollectorsInOrder ==
    /\ [](pc \in {"collect", "collect_wait"} =>
            /\ run.step \in 1..Len(CollectorOrder)
            /\ run.probe >= 1)
    /\ [](pc = "collect" => pg.pc = "idle" /\ mr.pc = "idle")
    /\ [](pc = "collect_wait" =>
            pg.ep = SiteEndpoint(CollectorOrder[run.step]))
    /\ [][(run'.step # run.step /\ pc' # "interrupted") =>
            /\ run'.step = run.step + 1
            /\ IF run.step = 0
               THEN pc = "access_wait" /\ Truthy(mr.result)
               ELSE pc = "collect_wait" /\ pg.pc = "done"]_vars
    /\ [](pc \in {"documents", "documents_wait"} =>
            /\ run.step = Len(CollectorOrder)
            /\ run.document_folders # <<>>
            /\ Holds(ResourceFile("document_folders.json"),
                     run.document_folders)
            /\ run.i \in 1..Len(run.document_folders))
    /\ [](pc = "documents" => pg.pc = "idle" /\ mr.pc = "idle")
    /\ [](pc = "documents_wait" =>
            pg.ep = [res |-> "documents",
                     folder |-> FolderId(run.document_folders[run.i])])
    /\ [][(pc = "collect_wait" /\ pc' = "documents") =>
            /\ run.step = Len(CollectorOrder)
            /\ run'.document_folders = pg.all_data]_vars

\* C13 witness: the documents of the second folder are being collected after
\* the four collectors before have saved what the backend holds
C13_Witness ==
    /\ pc = "documents_wait"
    /\ run.i = 2
    /\ stats.structured_contents = 2
    /\ stats.content_folders = 1
    /\ stats.site_pages = 0
    /\ stats.document_folders = 2

\* the order of the access probes
ProbeOrder == <<"site", "sites", "current-user">>

\* C14: the access check probes the site, the sites listing and the current
\* user in this order, each only after the one before gave no response; the
\* first response ends the check and starts the collection; when the third
\* probe gave none the run has failed, with no collector invoked: nothing
\* collected, nothing written.
C14_AccessProbesInOrder ==
    /\ [](pc \in {"access", "access_wait"} =>
            /\ run.probe \in 1..Len(ProbeOrder)
            /\ run.step = 0
            /\ pg.pc = "idle")
    /\ [](pc = "access_wait" =>
            /\ mr.ep = SiteEndpoint(ProbeOrder[run.probe])
            /\ mr.params = NoParams)
    /\ [][(run'.probe # run.probe /\ pc' # "interrupted") =>
            /\ run'.probe = run.probe + 1
            /\ IF run.probe = 0 THEN pc = "ready"
               ELSE pc = "access_wait" /\ mr.pc = "return"
                    /\ ~Truthy(mr.result)]_vars
    /\ [][(/\ pc = "access_wait"
           /\ mr.pc = "return"
           /\ Truthy(mr.result)
           /\ pc' # "interrupted") =>
            /\ pc' = "collect"
            /\ run'.probe = run.probe
            /\ run'.step = 1]_vars
    /\ [][(pc = "access_wait" /\ pc' = "failed") =>
            run.probe = Len(ProbeOrder) /\ ~Truthy(mr.result)]_vars
    /\ []((pc = "failed" /\ run.step = 0) =>
            /\ run.probe = Len(ProbeOrder)
            /\ files = {}
            /\ [stats EXCEPT !.errors = 0] = StatsZero
            /\ pg = PgIdle)
    /\ [][pc = "failed" => pc' = "failed"]_vars

\* C14 witness: the first probe gave no response, the second one did, and
\* the collection has started without the third
C14_Witness ==
    /\ pc = "collect"
    /\ run.probe = 2
    /\ run.step = 1

\* TRUE iff the output directory has a file of this name
HasFile(name) == \E f \in files : f.name = name

\* what the file of this name holds (nothing if there is no such file)
FileContent(name) ==
    IF HasFile(name) THEN (CHOOSE f \in files : f.name = name).content
    ELSE <<>>

\* C15: a run that has ended, successfully or not, has written
\* summary_report.json.
C15_Claim ==
    (pc \in {"done", "failed"}) => HasFile(ResourceFile("summary_report.json"))

\* C16: a full run that an error during collection has ended is marked
\* failed and has written summary_report.json.
C16_Claim ==
    (pc = "failed" /\ run.step >= 1) =>
        HasFile(ResourceFile("summary_report.json"))

\* the number of folders collect_documents_from_folders is through with
FoldersDone ==
    IF pc \in {"documents", "documents_wait"} THEN run.i - 1
    ELSE Len(run.document_folders)

\* the per-folder files
FolderFiles == {f \in files : f.name.file = "documents_folder"}

\* C17: collect_documents_from_folders takes the folders one after the other
\* in list order.  What it has accumulated is the concatenation, in folder
\* order, of the documents collected for the folders it is through with,
\* each document annotated with the id and name of its folder; a folder has
\* a file of its own, holding its annotated documents, exactly if at least
\* one document was collected for it; at the end all_documents.json holds
\* the accumulated documents and the statistic their number.
C17_DocumentsByFolder ==
    /\ []((/\ pc \in {"documents", "documents_wait", "summary", "done"}
           /\ run.document_folders # <<>>) =>
            LET folders == run.document_folders
                PerFolder == [i \in 1..FoldersDone |->
                                 FileContent(FolderFile(FolderId(folders[i])))]
            IN
            /\ run.all_documents = Flatten(PerFolder)
            /\ \A i \in 1..FoldersDone :
                  \A j \in 1..Len(PerFolder[i]) :
                     /\ PerFolder[i][j].ep =
                          [res |-> "documents", folder |-> FolderId(folders[i])]
                     /\ PerFolder[i][j].source_folder =
                          [id |-> FolderId(folders[i]),
                           name |-> FolderName(folders[i])]
            /\ \A f \in FolderFiles :
                  /\ f.content # <<>>
                  /\ f.complete
                  /\ \E i \in 1..FoldersDone :
                        f.name = FolderFile(FolderId(folders[i]))
            /\ (pc \in {"summary", "done"}) =>
                  IF run.all_documents # <<>>
                  THEN /\ Holds(ResourceFile("all_documents.json"),
                                run.all_documents)
                       /\ stats.documents = Len(run.all_documents)
                  ELSE ~HasFile(ResourceFile("all_documents.json")))
    /\ [][(pc = "documents_wait" /\ pc' \in {"documents", "summary"}) =>
            LET folder == run.document_folders[run.i]
                name == FolderFile(FolderId(folder))
            IN
            /\ run'.all_documents =
                  run.all_documents \o AnnotateAll(pg.all_data, folder)
            /\ IF pg.all_data # <<>>
               THEN [name |-> name,
                     content |-> AnnotateAll(pg.all_data, folder),
                     complete |-> TRUE] \in files'
               ELSE \A f \in files' : f.name # name
            /\ IF pc' = "documents" THEN run'.i = run.i + 1
               ELSE run.i = Len(run.document_folders)]_vars

\* C17 witness: two folders, two documents collected for the first and none
\* for the second: two consolidated records and one per-folder file
C17_Witness ==
    /\ pc = "done"
    /\ Len(run.document_folders) = 2
    /\ Len(run.all_documents) = 2
    /\ Cardinality(FolderFiles) = 1
    /\ Holds(ResourceFile("all_documents.json"), run.all_documents)
    /\ backend = MockBackend

\* TRUE iff find_csrf_token is running
Discovering == mr.pc \in {"csrf", "csrf_scan"}

\* C18 as stated: find_csrf_token runs only in the first make_request call,
\* before its first attempt, and only while no token is known.
C18_Original ==
    Discovering =>
        /\ Len(pg.requests) = 1
        /\ mr.log = <<>>
        /\ csrf_token = "none"

\* C18 amended: in one make_request call find_csrf_token runs at most once,
\* at the entry of the call and so before its first attempt, exactly if no
\* token is known then; a token once known stays known, so discovery never
\* runs again after it; but as long as none is known, every call runs it
\* again.
C18_LazyDiscovery ==
    /\ [](Discovering =>
            /\ csrf_token = "none"
            /\ mr.log = <<>>
            /\ mr.attempt = 0)
    /\ [][(~Discovering /\ Discovering') =>
            mr.pc = "idle" /\ csrf_token = "none"]_vars
    /\ [][(mr.pc = "idle" /\ mr'.pc # "idle") =>
            mr'.pc = IF csrf_token = "none" THEN "csrf" ELSE "attempt"]_vars
    /\ [][csrf_token # "none" => csrf_token' # "none"]_vars

\* C18 witness: discovery runs again in the make_request call of page 2
C18_Witness ==
    /\ Len(pg.requests) = 2
    /\ Discovering
    /\ mr.csrf_idx = 1

\* C19 as stated, the header: the discovered token, installed on the session,
\* is what the API GETs after it carry.
C19_Original ==
    (session_headers.X_CSRF_Token # "none" /\ mr.log # <<>>) =>
        mr.sent.X_CSRF_Token = session_headers.X_CSRF_Token

\* C19 amended: find_csrf_token probes its candidate URLs in list order; in
\* a 200 response the X-CSRF-Token header wins over a match in the body; the
\* first match is stored, installed on the session for good, and ends the
\* search; without any match nothing is installed and make_request goes on.
\* Every API GET carries the token the collector knows at that time, or no
\* token header if it knows none: that is the installed token unless a form
\* login has replaced the stored token since.
C19_FirstMatchWins ==
    /\ [](Discovering => mr.csrf_idx \in 1..NumCsrfSources)
    /\ [][mr.pc = "csrf" =>
            /\ mr'.pc = "csrf_scan"
            /\ mr'.csrf_idx = mr.csrf_idx
            /\ UNCHANGED <<csrf_token, session_headers>>]_vars
    /\ [][mr.pc = "csrf_scan" =>
            CASE mr.csrf_response \in {"header", "header_body"} ->
                   /\ csrf_token' = "header"
                   /\ session_headers'.X_CSRF_Token = "header"
                   /\ mr'.pc = "attempt"
              [] mr.csrf_response = "body" ->
                   /\ csrf_token' = "body"
                   /\ session_headers'.X_CSRF_Token = "body"
                   /\ mr'.pc = "attempt"
              [] OTHER ->
                   /\ UNCHANGED <<csrf_token, session_headers>>
                   /\ IF mr.csrf_idx < NumCsrfSources
                      THEN mr'.pc = "csrf" /\ mr'.csrf_idx = mr.csrf_idx + 1
                      ELSE mr'.pc = "attempt"]_vars
    /\ [](session_headers.X_CSRF_Token # "none" => csrf_token # "none")
    /\ [][session_headers.X_CSRF_Token # "none" =>
            session_headers'.X_CSRF_Token = session_headers.X_CSRF_Token]_vars
    /\ [][RequestSent => mr'.sent.X_CSRF_Token = csrf_token]_vars
    /\ []((/\ session_headers.X_CSRF_Token # "none"
           /\ mr.log # <<>>
           /\ csrf_token # "login") =>
            mr.sent.X_CSRF_Token = session_headers.X_CSRF_Token)

\* C19 witness: the second candidate URL gave the token in its header, and
\* the GET after it carried the token
C19_Witness ==
    /\ mr.csrf_idx = 2
    /\ csrf_token = "header"
    /\ session_headers.X_CSRF_Token = "header"
    /\ mr.log = <<"200">>
    /\ mr.sent.X_CSRF_Token = "header"

\* C20: every file in the output directory holds one complete JSON value,
\* also after a user interrupt.
C20_Claim == \A f \in files : f.complete

\* the strategy that ended the finished run of the Authenticator with success
Winner == auth.trace[Len(auth.trace)].strategy

\* the authorization header a strategy installs when it wins
Artifact(strategy) ==
    CASE strategy = "basic"  -> "Basic"
      [] strategy = "oauth2" -> "Bearer"
      [] OTHER               -> "none"

\* C23: when the Authenticator has finished with a winning strategy during
\* construction, the authorization header of the session is the one that
\* strategy installs (none for the form and the JSON-WS login), and
\* not the header of a strategy that failed before it.
C23_Claim ==
    (/\ pc = "init"
     /\ auth.pc = "done"
     /\ auth.trace[Len(auth.trace)].ok) =>
        session_headers.Authorization = Artifact(Winner)

\* C25: a collection that has issued n page requests has taken n - 1
\* delays when it waits for page n or has ended, and n delays when it is
\* about to request page n + 1: one delay between two consecutive requests,
\* none before the first, none after the last or after a failed one.
C25_OneDelayBetweenPages ==
    /\ (pg.pc = "idle") => (pg.sleeps = 0 /\ pg.requests = <<>>)
    /\ (pg.pc = "loop") => pg.sleeps = Len(pg.requests)
    /\ (pg.pc \in {"wait", "done"}) => pg.sleeps = Len(pg.requests) - 1
    /\ Len(pg.requests) = IF pg.pc = "loop" THEN pg.page - 1 ELSE pg.page

\* C25 witness: two page requests, the second one failed, one delay
C25_Witness ==
    /\ pg.pc = "done"
    /\ Len(pg.requests) = 2
    /\ pg.failed = 2
    /\ pg.sleeps = 1

\* C26: a collection that a page fetch without result has ended has
\* incremented the error counter.
C26_Claim ==
    (pg.pc = "done" /\ pg.failed # 0) => stats.errors > pg.errors0

\* C29: the error counter never decreases; a step changes it by exactly one
\* and only as the final attempt of a make_request call fails with a
\* retryable failure and the call returns None; so one call changes it by
\* at most one, and a call that returns a body leaves it unchanged.
C29_ErrorCounter ==
    /\ [][stats'.errors >= stats.errors]_vars
    /\ [][stats'.errors # stats.errors =>
            /\ stats'.errors = stats.errors + 1
            /\ mr.attempt = max_retries - 1
            /\ mr'.pc = "return"
            /\ mr'.result = None
            /\ Len(mr'.log) = max_retries
            /\ mr'.log[max_retries] \in Retryable]_vars
    /\ [](mr.pc # "idle" => stats.errors - mr.errors0 \in {0, 1})
    /\ []((mr.pc = "return" /\ mr.result # None) => stats.errors = mr.errors0)
    /\ []((mr.pc = "return" /\ stats.errors = mr.errors0 + 1) =>
            Len(mr.log) = max_retries)

\* C29 witness: the third attempt of a call failed, the call returned None
\* and the counter went from 0 to 1
C29_Witness ==
    /\ mr.pc = "return"
    /\ mr.log = <<"500", "500", "exc">>
    /\ mr.errors0 = 0
    /\ stats.errors = 1
    /\ mr.result = None

\* the larger of two numbers
Max(a, b) == IF a >= b THEN a ELSE b

\* TRUE iff collect_paginated_data is running
Collecting == pg.pc \in {"loop", "wait"}

\* how far the Authenticator is in its run
AuthProgress ==
    CASE auth.pc = "basic"  -> 1
      [] auth.pc = "web"    -> 2
      [] auth.pc = "jsonws" -> 3
      [] auth.pc = "oauth2" -> 4
      [] auth.pc = "done"   -> 5
      [] OTHER              -> 0

\* how far a make_request call is, up to CallDone when it has returned
CallDone == 10 * (max_retries + 1)
CallProgress ==
    CASE mr.pc = "csrf"      -> 2 * mr.csrf_idx - 1
      [] mr.pc = "csrf_scan" -> 2 * mr.csrf_idx
      [] mr.pc = "attempt"   -> 10 * (mr.attempt + 1)
      [] mr.pc = "reauth"    -> 10 * (mr.attempt + 1) + AuthProgress
      [] mr.pc = "return"    -> CallDone
      [] OTHER               -> 0

\* how far a collection is, up to CollectionDone when it has ended
CollectionDone == (MaxLastPage + 2) * (CallDone + 1)
Progress ==
    CASE pg.pc = "done" -> CollectionDone
      [] Collecting     -> pg.page * (CallDone + 1) + CallProgress
      [] OTHER          -> 0

\* C30: collect_paginated_data terminates.  The total page count is read
\* from page 1 only; the page number goes up by one per iteration; the page
\* requests made are at most max(1, lastPage), each of at most max_retries
\* attempts; the loop has ended after a failed fetch, after a total count of
\* zero and after page lastPage.  A running collection always has a next
\* step, and every step it takes brings it nearer to its end by a measure
\* that is bounded: it ends after finitely many steps.
C30_Terminates ==
    /\ [][(Collecting /\ pg.page >= 2) =>
            pg'.total_pages = pg.total_pages]_vars
    /\ [][(Collecting /\ pg'.page # pg.page) =>
            /\ pg'.page = pg.page + 1
            /\ pg'.pc = "loop"
            /\ pg.pc = "wait"]_vars
    /\ [](Len(pg.requests) <= Max(1, Get(pg.total_pages, 1)))
    /\ [](Len(mr.log) <= max_retries)
    /\ []((pg.failed # 0 \/ pg.total_count = {0}) => ~Collecting)
    /\ []((pg.pc = "loop" /\ pg.page >= 2) =>
            pg.page <= Get(pg.total_pages, 1))
    /\ [](Collecting => ENABLED NextPaginated)
    /\ [](Collecting => Progress < CollectionDone)
    /\ [][Collecting => Progress' > Progress]_vars

\* C30 witness: a collection of lastPage = 2 pages has ended after two
\* requests, the first of which took three attempts
C30_Witness ==
    /\ pg.pc = "done"
    /\ pg.total_pages = {2}
    /\ Len(pg.requests) = 2
    /\ pg.failed = 0
    /\ faults >= 2

\* TRUE iff the folders have been collected and the documents collector is
\* running or has returned
WithFolders ==
    \/ pc \in {"documents", "documents_wait"}
    \/ pc \in {"summary", "done"} /\ run.document_folders # <<>>

\* the document_folders dataset as persisted
FoldersDataset(fs) ==
    {f \in fs : f.name = ResourceFile("document_folders.json")}

\* C24: collect_documents_from_folders does not change the folders.  From
\* its call to its return the folder list it was passed is the same list of
\* the same records, and document_folders.json holds exactly that list, as
\* the document folders collector wrote it; no step of the documents
\* collector changes either of them.
C24_FoldersUnchanged ==
    /\ [](WithFolders =>
            Holds(ResourceFile("document_folders.json"), run.document_folders))
    /\ [][(pc \in {"documents", "documents_wait"} /\ pc' # "interrupted") =>
            /\ run'.document_folders = run.document_folders
            /\ FoldersDataset(files') = FoldersDataset(files)]_vars

\* The documents collector has returned after going through two folders and
\* writing the annotated documents of each.
C24_Witness ==
    /\ pc = "summary"
    /\ Len(run.document_folders) = 2
    /\ Cardinality(FolderFiles) = 2
    /\ Holds(ResourceFile("document_folders.json"), run.document_folders)

\* the key of the report under which a statistic is given
ReportKey ==
    [structured_contents |-> "conteudos_estruturados",
     content_folders     |-> "pastas_de_conteudo",
     site_pages          |-> "paginas_do_site",
     document_folders    |-> "pastas_de_documentos",
     documents           |-> "documentos"]

\* the statistic and the file of every dataset
Datasets ==
    {[name |-> Collectors[i].name, file |-> Collectors[i].file] :
        i \in 1..Len(Collectors)}
    \cup {[name |-> "documents", file |-> "all_documents.json"]}

\* C27: the statistic of a resource type is the number of records in the
\* file its collector has written, and is zero exactly while the collector
\* has written none; the documents statistic counts the consolidated
\* dataset, which holds as many documents as the per-folder files together;
\* and the summary gives, for every resource type, the statistic as it is
\* at the end of the run.
C27_StatsCountRecords ==
    /\ \A d \in Datasets :
          /\ \A f \in files :
                (f.name = ResourceFile(d.file) /\ f.complete) =>
                    (stats[d.name] = Len(f.content) /\ f.content # <<>>)
          /\ stats[d.name] # 0 =>
                \E f \in files : f.name = ResourceFile(d.file) /\ f.complete
    /\ \A f \in files :
          (/\ f.name = ResourceFile("all_documents.json") /\ f.complete
           /\ pc \in {"summary", "done"}) =>
              /\ f.content = run.all_documents
              /\ Len(f.content) =
                     SumLen([j \in 1..Len(run.document_folders) |->
                                FileContent(FolderFile(
                                    FolderId(run.document_folders[j])))])
    /\ \A f \in files :
          (f.name = ResourceFile("summary_report.json") /\ f.complete) =>
              /\ pc = "done"
              /\ \A n \in DOMAIN ReportKey :
                    f.content[1].estatisticas[ReportKey[n]] = stats[n]

\* A run has ended with the summary written after every collector but the
\* one of the site pages saved a dataset, the documents of two folders
\* among them.
C27_Witness ==
    /\ pc = "done"
    /\ HasFile(ResourceFile("summary_report.json"))
    /\ stats.structured_contents = 2
    /\ stats.content_folders = 1
    /\ stats.document_folders = 2
    /\ stats.documents = 3

\* the statistics other than the error counter
Counts(st) == [st EXCEPT !.errors = 0]

\* C28: a collector whose dataset is empty writes no file and sets no
\* statistic.  From the call of a collector to its return nothing but its
\* own save changes the output directory or a statistic other than the
\* error counter; the save of a site collector with an empty dataset
\* changes neither; the documents collector writes no file for a folder
\* without documents, and neither the consolidated file nor the statistic
\* when no folder has any.  A dataset file is therefore never empty.
C28_EmptyDatasetNoEffect ==
    /\ [][(/\ pc \in {"collect_wait", "documents_wait"}
            /\ pc' # "interrupted"
            /\ pg.pc # "done") =>
                (files' = files /\ Counts(stats') = Counts(stats))]_vars
    /\ [][(/\ pc = "collect_wait" /\ pg.pc = "done" /\ pg.all_data = <<>>
            /\ pc' # "interrupted") =>
                (files' = files /\ stats' = stats)]_vars
    /\ [][(/\ pc = "documents_wait" /\ pg.pc = "done" /\ pg.all_data = <<>>
            /\ pc' # "interrupted") =>
                /\ {f \in files' : f.name.file = "documents_folder"} = FolderFiles
                /\ run.all_documents = <<>> =>
                       (files' = files /\ stats' = stats)]_vars
    /\ [](\A f \in files :
            (f.complete /\ f.name # ResourceFile("summary_report.json")) =>
                f.content # <<>>)

\* The site pages collector has returned with an empty dataset (the backend
\* reports a total count of zero) after the content folders were saved:
\* there is no site_pages.json and the statistic is as it was.
C28_Witness ==
    /\ pc = "collect"
    /\ run.step = 4
    /\ HasFile(ResourceFile("content_folders.json"))
    /\ ~HasFile(ResourceFile("site_pages.json"))
    /\ stats.site_pages = 0

\* TRUE iff the configuration is in error: a credential is missing or no
\* resource is selected
ConfigurationError == ~HasCredentials \/ invocation.collect_options = {}

\* C21: a run of main.py with a configuration error ends with a nonzero
\* exit status, without a collector constructed and without a request sent.
C21_Claim ==
    (pc = "exited" /\ ConfigurationError) =>
        /\ invocation.exit_code # 0
        /\ files = {}
        /\ auth = AuthIdle /\ mr = MrIdle /\ pg = PgIdle

\* C22: when the second of two runs against the same deterministic backend
\* has ended, the output directory holds the dataset files the first run
\* left, with the same contents.  No script of the backend stops a run
\* before its end.
C22_SecondRunSameDatasets ==
    /\ (invocation.number = 2 /\ pc \in {"done", "failed"}) =>
          /\ DatasetFiles(files) = invocation.left
          /\ \A f \in files : f.complete
    /\ (~ENABLED NextRerun) =>
          (invocation.number = 2 /\ pc \in {"done", "failed"})

\* The second run has ended with its summary written, after a fault of the
\* backend that both runs met, and with the documents of three folders in
\* the consolidated dataset.
C22_Witness ==
    /\ invocation.number = 2
    /\ pc = "done"
    /\ faults >= 1
    /\ stats.documents = 3
    /\ HasFile(ResourceFile("all_documents.json"))
    /\ DatasetFiles(files) = invocation.left


=============================================================================
